---- MODULE Spec2Model ----
(***************************************************************************)
(* Surgical risk prediction form (src/app.py), a Streamlit script.         *)
(*                                                                         *)
(* The hosting runtime executes the whole script from its first line on    *)
(* every interaction of a session: when the page is opened, when a number  *)
(* input changes and when the "Predict Risk" button is pressed.  One       *)
(* action of this model is one such script run, from line 1 to the         *)
(* sidebar or to the st.stop() that ends it early.                         *)
(*                                                                         *)
(* Numbers: a probability is an integer number of thousandths (0.5 is      *)
(* 500, 0.73 is 730), so that the "{proba:.1%}" format is exact: it is     *)
(* the pair <<whole percent, tenth of a percent>>.                         *)
(***************************************************************************)
EXTENDS Integers, Sequences, FiniteSets, TLC

VARIABLES
    joblibInstalled,   \* environment: the joblib package can be imported
    artifact,          \* environment: what "model.joblib" holds on disk
    widgets,           \* session state: the value of each number input
    failedBefore,      \* session history: a run of it rendered "Prediction failed"
    runs,              \* script runs so far
    edits,             \* number-input changes so far
    loads,             \* calls of joblib.load so far
    pressed,           \* the last run was triggered by the button
    status,            \* "idle", "stopped" (st.stop) or "done" (script ended)
    model,             \* the module-level name `model` of the last run
    inputs,            \* the module-level name `inputs` of the last run
    display,           \* elements rendered by the last run, in order
    calls,             \* operations of the model the last run evaluated
    proba,             \* the value bound to `proba` in the last run
    risk_level,        \* the label rendered by the last run ("" if none)
    percent,           \* the percentage rendered by the last run (<<>> if none)
    importance_df      \* the ranking rendered by the last run (<<>> if none)

vars == <<joblibInstalled, artifact, widgets, failedBefore, runs, edits, loads,
          pressed, status, model, inputs, display, calls, proba, risk_level,
          percent, importance_df>>

-----------------------------------------------------------------------------
(* Bounds of the model *)

MaxRuns == 4
MaxEdits == 1
MaxWeight == 4

-----------------------------------------------------------------------------
(* The parameter schema, lines 33-100, in declaration order *)

VARIABLE_CONFIG ==
    << [name |-> "Sex",                     min |-> 0, max |-> 1, value |-> 0],
       [name |-> "ASA scores",              min |-> 0, max |-> 5, value |-> 2],
       [name |-> "tumor location",          min |-> 1, max |-> 4, value |-> 2],
       [name |-> "Benign or malignant",     min |-> 0, max |-> 1, value |-> 0],
       [name |-> "Admitted to NICU",        min |-> 0, max |-> 1, value |-> 0],
       [name |-> "Duration of surgery",     min |-> 0, max |-> 1, value |-> 0],
       [name |-> "diabetes",                min |-> 0, max |-> 1, value |-> 0],
       [name |-> "CHF",                     min |-> 0, max |-> 1, value |-> 0],
       [name |-> "Functional dependencies", min |-> 0, max |-> 1, value |-> 0],
       [name |-> "mFI-5",                   min |-> 0, max |-> 5, value |-> 1],
       [name |-> "Type of tumor",           min |-> 1, max |-> 5, value |-> 2] >>

\* list(VARIABLE_CONFIG.keys())
expected_columns == [i \in 1..Len(VARIABLE_CONFIG) |-> VARIABLE_CONFIG[i].name]

Features == {VARIABLE_CONFIG[i].name : i \in 1..Len(VARIABLE_CONFIG)}

ConfigOf(feature) ==
    CHOOSE c \in {VARIABLE_CONFIG[i] : i \in 1..Len(VARIABLE_CONFIG)} : c.name = feature

\* 0.5, in thousandths
Threshold == 500

-----------------------------------------------------------------------------
(* The environment: what joblib.load finds on disk *)

\* The weights of an importance vector of the given length
ImpVec(len, a) == [i \in 1..len |-> (a * i) % MaxWeight]

NoModel ==
    [file |-> "none", predict_proba |-> "absent", p |-> 0, predict |-> "class",
     maxASA |-> 0, feature_importances_ |-> "absent", fiVec |-> <<>>,
     hasCoef |-> FALSE, coef_ |-> <<>>]

\* predict_proba ("ok", "absent", or "attrerr": it exists and its body raises
\* AttributeError) with what predict returns: the class label as a number,
\* one row of a two-dimensional output, or a label that is not a number.
ModelShapes ==
    { <<"ok", "class">>, <<"absent", "class">>, <<"absent", "array1">>,
      <<"absent", "label">>, <<"attrerr", "class">> }

PValues == {0, 500, 501, 730, 1000}

\* feature_importances_ ("absent", "present", or "raises": reading it raises
\* an error other than AttributeError) and coef_
Importances(lens, seeds) ==
    { [fi |-> "absent", fiVec |-> <<>>, hasCoef |-> FALSE, coef_ |-> <<>>],
      [fi |-> "raises", fiVec |-> <<>>, hasCoef |-> FALSE, coef_ |-> <<>>] }
    \cup { [fi |-> "present", fiVec |-> ImpVec(n, a), hasCoef |-> FALSE, coef_ |-> <<>>]
             : n \in lens, a \in seeds }
    \cup { [fi |-> "absent", fiVec |-> <<>>, hasCoef |-> TRUE,
            coef_ |-> <<ImpVec(n, a), ImpVec(n, a + 1)>>] : n \in lens, a \in seeds }
    \cup { [fi |-> "present", fiVec |-> ImpVec(n, a), hasCoef |-> TRUE,
            coef_ |-> <<ImpVec(n, a + 1)>>] : n \in lens, a \in seeds }

Classifier(shape, p, maxASA, imp) ==
    [file |-> "valid", predict_proba |-> shape[1], p |-> p, predict |-> shape[2],
     maxASA |-> maxASA, feature_importances_ |-> imp.fi, fiVec |-> imp.fiVec,
     hasCoef |-> imp.hasCoef, coef_ |-> imp.coef_]

Unloadable == { [NoModel EXCEPT !.file = f] : f \in {"missing", "corrupt"} }

\* A classifier with one importance per schema parameter
Ranked ==
    [fi |-> "present", fiVec |-> ImpVec(Len(VARIABLE_CONFIG), 1),
     hasCoef |-> FALSE, coef_ |-> <<>>]

\* The highest ASA score a classifier accepts: every score of the schema, or
\* only the scores up to 1
TrainedMaxASA == {1, VARIABLE_CONFIG[2].max}

\* With predict_proba the probability itself is shown; on the other paths
\* only the class it falls in matters, so one value per class stands for all.
Artifacts ==
    Unloadable
    \cup { Classifier(<<"ok", "class">>, p, a, Ranked) : p \in PValues, a \in TrainedMaxASA }
    \cup { Classifier(s, p, a, Ranked) :
             s \in ModelShapes \ {<<"ok", "class">>}, p \in {500, 730}, a \in TrainedMaxASA }

ImportanceArtifacts ==
    { Classifier(<<"ok", "class">>, 730, VARIABLE_CONFIG[2].max, i) :
        i \in Importances({Len(VARIABLE_CONFIG) - 1, Len(VARIABLE_CONFIG),
                           Len(VARIABLE_CONFIG) + 1}, {1, 3}) }

-----------------------------------------------------------------------------
(* The classifier object, as the script uses it *)

Num(v) == [tag |-> "num", v |-> v]
Arr1(v) == [tag |-> "arr1", v |-> v]
Str == [tag |-> "str", v |-> 0]
NoValue == [tag |-> "none", v |-> 0]

Ok(v) == [raised |-> "", val |-> v]
Raise(e) == [raised |-> e, val |-> NoValue]

\* The record's columns are the ones the classifier was trained on, in that
\* order, and every value is one it was trained on.
Accepts(m, df) ==
    /\ [i \in 1..Len(df) |-> df[i][1]] = expected_columns
    /\ Len(df) = Len(VARIABLE_CONFIG)
    /\ \A i \in 1..Len(df) :
         /\ df[i][2] >= VARIABLE_CONFIG[i].min
         /\ df[i][2] <= (IF df[i][1] = "ASA scores" THEN m.maxASA
                                                     ELSE VARIABLE_CONFIG[i].max)

\* model.predict_proba(input_df)[0][1]
PredictProba(m, df) ==
    IF m.file # "valid" THEN Raise("NameError")
    ELSE IF m.predict_proba \in {"absent", "attrerr"} THEN Raise("AttributeError")
    ELSE IF ~Accepts(m, df) THEN Raise("ValueError")
    ELSE Ok(Num(m.p))

ClassOf(m) == IF m.p > 500 THEN 1000 ELSE 0

\* model.predict(input_df)[0]
Predict(m, df) ==
    IF m.file # "valid" THEN Raise("NameError")
    ELSE IF ~Accepts(m, df) THEN Raise("ValueError")
    ELSE CASE m.predict = "class"  -> Ok(Num(ClassOf(m)))
           [] m.predict = "array1" -> Ok(Arr1(ClassOf(m)))
           [] OTHER                -> Ok(Str)

-----------------------------------------------------------------------------
(* What lines 140-148 do with the value bound to proba *)

\* Variant of GreaterThanHalf that compares with >= (sensitivity of C2)
AtLeastHalf(v) ==
    CASE v.tag = "num"  -> [raised |-> "", b |-> v.v >= Threshold]
      [] v.tag = "arr1" -> [raised |-> "", b |-> v.v >= Threshold]
      [] OTHER          -> [raised |-> "TypeError", b |-> FALSE]

\* proba > 0.5 used as a condition: a number compares; a one-element array
\* compares element-wise and has the truth value of its element; a label
\* that is not a number cannot be compared with a float.
GreaterThanHalf(v) ==
    CASE v.tag = "num"  -> [raised |-> "", b |-> v.v > Threshold]
      [] v.tag = "arr1" -> [raised |-> "", b |-> v.v > Threshold]
      [] OTHER          -> [raised |-> "TypeError", b |-> FALSE]

\* "High Risk" if proba > 0.5 else "Low Risk"
RiskLevel(b) == IF b THEN "High Risk" ELSE "Low Risk"

\* f"{proba:.1%}": a number is shown as a percentage with one decimal; an
\* array does not support the format.
FormatPercent(v) ==
    IF v.tag = "num" THEN [raised |-> "", s |-> <<v.v \div 10, v.v % 10>>]
    ELSE [raised |-> "TypeError", s |-> <<>>]

-----------------------------------------------------------------------------
(* The form, lines 106-119 *)

Clamp(x, lo, hi) == IF x < lo THEN lo ELSE IF x > hi THEN hi ELSE x

\* Variant of NumberInput without min_value and max_value (sensitivity of C7)
NumberInputUnbounded(config, requested) == requested

\* st.number_input(min_value, max_value, value, step=1): the widget never
\* holds a value outside [min_value, max_value].
NumberInput(config, requested) == Clamp(requested, config.min, config.max)

\* The inputs mapping, in insertion order, as <<feature, value>> pairs
Inputs(w) ==
    [i \in 1..Len(VARIABLE_CONFIG) |->
        <<VARIABLE_CONFIG[i].name,
          NumberInput(VARIABLE_CONFIG[i], w[VARIABLE_CONFIG[i].name])>>]

FormElements == <<"title", "Patient Parameters">> \o expected_columns

Defaults == [f \in Features |-> ConfigOf(f).value]

-----------------------------------------------------------------------------
(* The record passed to the model, lines 125-129 *)

Columns(df) == [i \in 1..Len(df) |-> df[i][1]]

HasColumn(df, c) == \E i \in 1..Len(df) : df[i][1] = c

Cell(df, c) == df[CHOOSE i \in 1..Len(df) : df[i][1] = c][2]

\* pd.DataFrame([inputs]): one row, the columns in the mapping's order
DataFrame(mapping) == mapping

\* Variant of Reproject that leaves the columns as they are (sensitivity of C3)
KeepOrder(df, cols) == [raised |-> "", df |-> df]

\* input_df[expected_columns]: selects the columns by name, in the order of
\* the list, and raises KeyError when one is missing
Reproject(df, cols) ==
    IF \A i \in 1..Len(cols) : HasColumn(df, cols[i])
      THEN [raised |-> "", df |-> [i \in 1..Len(cols) |-> <<cols[i], Cell(df, cols[i])>>]]
      ELSE [raised |-> "KeyError", df |-> <<>>]

-----------------------------------------------------------------------------
(* The probability, lines 133-138 *)

Call(op, df) == [op |-> op, df |-> df]

Invoke(m, df) ==
    LET first == PredictProba(m, df)
    IN  IF first.raised = "AttributeError"
          THEN [res |-> Predict(m, df),
                calls |-> <<Call("predict_proba", df), Call("predict", df)>>]
          ELSE [res |-> first, calls |-> <<Call("predict_proba", df)>>]

-----------------------------------------------------------------------------
(* The importance ranking, lines 154-177 *)

\* hasattr answers False only for AttributeError; any other error of the
\* attribute leaves it
GetImportance(m) ==
    IF m.feature_importances_ = "raises" THEN [raised |-> "RuntimeError", vec |-> <<>>]
    ELSE IF m.feature_importances_ = "present" THEN [raised |-> "", vec |-> m.fiVec]
    ELSE IF m.hasCoef THEN [raised |-> "", vec |-> m.coef_[1]]
    ELSE [raised |-> "AttributeError", vec |-> <<>>]

\* pd.DataFrame({"Feature": ..., "Importance": ...}): the columns must have
\* the same length
Tabulate(features, importance) ==
    IF Len(importance) = Len(features)
      THEN [raised |-> "", rows |-> [i \in 1..Len(features) |-> <<features[i], importance[i]>>]]
      ELSE [raised |-> "ValueError", rows |-> <<>>]

\* One row put into rows that are already in descending order, after the
\* rows of the same weight
RECURSIVE InsertDesc(_, _)
InsertDesc(row, sorted) ==
    IF sorted = <<>> THEN <<row>>
    ELSE IF Head(sorted)[2] >= row[2] THEN <<Head(sorted)>> \o InsertDesc(row, Tail(sorted))
    ELSE <<row>> \o sorted

\* Variant of SortValuesDesc that leaves the rows as they are (sensitivity of C9)
Unsorted(rows) == rows

\* .sort_values("Importance", ascending=False)
RECURSIVE SortValuesDesc(_)
SortValuesDesc(rows) ==
    IF rows = <<>> THEN <<>>
    ELSE InsertDesc(rows[Len(rows)], SortValuesDesc(SubSeq(rows, 1, Len(rows) - 1)))

\* The body of the inner try
ImportanceTry(m) ==
    LET got == GetImportance(m)
        tab == Tabulate(expected_columns, got.vec)
    IN  IF got.raised # "" THEN [raised |-> got.raised, out |-> <<>>, importance_df |-> <<>>]
        ELSE IF tab.raised # "" THEN [raised |-> tab.raised, out |-> <<>>, importance_df |-> <<>>]
        ELSE [raised |-> "", out |-> <<"bar_chart", "dataframe">>,
              importance_df |-> SortValuesDesc(tab.rows)]

\* Variant of ImportanceBlock without the except (sensitivity of C4)
ImportanceUncaught(m) == ImportanceTry(m)

\* The inner try with its except Exception
ImportanceBlock(m) ==
    LET t == ImportanceTry(m)
    IN  IF t.raised # ""
          THEN [raised |-> "", out |-> <<"importance_warning", "importance_info">>,
                importance_df |-> <<>>]
          ELSE t

-----------------------------------------------------------------------------
(* The button's handler, lines 123-181 *)

\* What a run has rendered and bound so far
Nothing ==
    [out |-> <<>>, calls |-> <<>>, proba |-> NoValue, risk_level |-> "",
     percent |-> <<>>, importance_df |-> <<>>]

\* Variant of PredictionFailed that renders nothing (sensitivity of C5)
FailureSwallowed(r) == r

\* except Exception of the outer try: what the try rendered stays rendered
PredictionFailed(r) ==
    [r EXCEPT !.out = @ \o <<"prediction_failed", "check_input">>]

\* Lines 150-177, after the label and the probability are rendered
KeyRiskFactors(m, r) ==
    LET imp == ImportanceBlock(m)
        head == [r EXCEPT !.out = @ \o <<"rule", "Key Risk Factors">>]
    IN  IF imp.raised # "" THEN PredictionFailed(head)
        ELSE [head EXCEPT !.out = @ \o imp.out, !.importance_df = imp.importance_df]

\* Lines 140-148, then the ranking
ShowResult(m, r) ==
    LET cmp == GreaterThanHalf(r.proba)
        fmt == FormatPercent(r.proba)
        labelled == [r EXCEPT !.out = @ \o <<"rule", "Prediction Results", RiskLevel(cmp.b)>>,
                              !.risk_level = RiskLevel(cmp.b)]
    IN  IF cmp.raised # "" THEN PredictionFailed(r)
        ELSE IF fmt.raised # "" THEN PredictionFailed(labelled)
        ELSE KeyRiskFactors(m, [labelled EXCEPT !.out = @ \o <<"probability">>,
                                                !.percent = fmt.s])

Handler(m, mapping) ==
    LET proj == Reproject(DataFrame(mapping), expected_columns)
        inv == Invoke(m, proj.df)
        called == [Nothing EXCEPT !.calls = inv.calls]
    IN  IF proj.raised # "" THEN PredictionFailed(Nothing)
        ELSE IF inv.res.raised # "" THEN PredictionFailed(called)
        ELSE ShowResult(m, [called EXCEPT !.proba = inv.res.val])

-----------------------------------------------------------------------------
(* The script, lines 1-210 *)

\* Lines 15-21
ImportJoblib(installed) ==
    IF installed THEN [stop |-> FALSE, out |-> <<"joblib_imported">>]
    ELSE [stop |-> TRUE, out |-> <<"joblib_not_found", "requirements_hint">>]

\* Variant of LoadModel whose except does not call st.stop() (sensitivity of C1)
LoadModelNoStop(disk) ==
    IF disk.file = "valid"
      THEN [stop |-> FALSE, model |-> disk, out |-> <<"model_loaded">>]
      ELSE [stop |-> FALSE, model |-> NoModel, out |-> <<"load_failed", "load_hint">>]

\* Lines 24-30: joblib.load("model.joblib")
LoadModel(disk) ==
    IF disk.file = "valid"
      THEN [stop |-> FALSE, model |-> disk, out |-> <<"model_loaded">>]
      ELSE [stop |-> TRUE, model |-> NoModel, out |-> <<"load_failed", "load_hint">>]

Stopped(out, m, n) ==
    [Nothing EXCEPT !.out = out]
      @@ [status |-> "stopped", model |-> m, loaded |-> n, inputs |-> <<>>]

\* The page of a run that reached its last line: the form, what the handler
\* rendered, the sidebar
Page(head, h) == [h EXCEPT !.out = head \o FormElements \o <<"Predict Risk">> \o @ \o <<"sidebar">>]

\* One run of the script; button is what st.button returns in it
RunScript(installed, disk, w, button) ==
    LET imp == ImportJoblib(installed)
        ld == LoadModel(disk)
        h == IF button THEN Handler(ld.model, Inputs(w)) ELSE Nothing
    IN  IF imp.stop THEN Stopped(imp.out, NoModel, 0)
        ELSE IF ld.stop THEN Stopped(imp.out \o ld.out, ld.model, 1)
        ELSE Page(imp.out \o ld.out, h)
               @@ [status |-> "done", model |-> ld.model, loaded |-> 1, inputs |-> Inputs(w)]

-----------------------------------------------------------------------------
(* The session *)

FormShown == \E i \in 1..Len(display) : display[i] \in Features

ButtonShown == \E i \in 1..Len(display) : display[i] = "Predict Risk"

Shown(e) == \E i \in 1..Len(display) : display[i] = e

Failed(out) == \E i \in 1..Len(out) : out[i] = "prediction_failed"

\* What a run leaves on the page and in the script's names
Leaves(r) ==
    /\ display' = r.out
    /\ calls' = r.calls
    /\ proba' = r.proba
    /\ risk_level' = r.risk_level
    /\ percent' = r.percent
    /\ importance_df' = r.importance_df

Rerun(w, button, sameSession) ==
    LET r == RunScript(joblibInstalled, artifact, w, button)
    IN  /\ runs < MaxRuns
        /\ runs' = runs + 1
        /\ loads' = loads + r.loaded
        /\ pressed' = button
        /\ widgets' = w
        /\ failedBefore' = ((sameSession /\ failedBefore) \/ Failed(r.out))
        /\ status' = r.status
        /\ model' = r.model
        /\ inputs' = r.inputs
        /\ Leaves(r)
        /\ UNCHANGED <<joblibInstalled, artifact>>

\* The page is opened, or reloaded in the browser: a new session, whose
\* number inputs hold the schema's defaults
OpenPage ==
    /\ Rerun(Defaults, FALSE, FALSE)
    /\ edits' = edits

\* The user steps a number input up or down
ChangeInput(feature, step) ==
    LET new == NumberInput(ConfigOf(feature), widgets[feature] + step)
    IN  /\ FormShown
        /\ edits < MaxEdits
        /\ new # widgets[feature]
        /\ Rerun([widgets EXCEPT ![feature] = new], FALSE, TRUE)
        /\ edits' = edits + 1

\* The user presses "Predict Risk"
PressPredict ==
    /\ ButtonShown
    /\ Rerun(widgets, TRUE, TRUE)
    /\ edits' = edits

InitSession ==
    /\ widgets = Defaults
    /\ failedBefore = FALSE
    /\ inputs = <<>>
    /\ runs = 0
    /\ edits = 0
    /\ loads = 0
    /\ pressed = FALSE
    /\ status = "idle"
    /\ model = NoModel
    /\ display = <<>>
    /\ calls = <<>>
    /\ proba = NoValue
    /\ risk_level = ""
    /\ percent = <<>>
    /\ importance_df = <<>>

Init ==
    /\ joblibInstalled \in BOOLEAN
    /\ artifact \in Artifacts
    /\ InitSession

Next ==
    \/ OpenPage
    \/ \E f \in Features, d \in {-1, 1} : ChangeInput(f, d)
    \/ PressPredict

Spec == Init /\ [][Next]_vars

\* The same program, over classifiers that differ in their importances
InitImportance ==
    /\ joblibInstalled = TRUE
    /\ artifact \in ImportanceArtifacts
    /\ InitSession

SpecImportance == InitImportance /\ [][Next]_vars

-----------------------------------------------------------------------------
(* Lines 122-181 as a function of the inputs mapping: the handler applied to
   mappings that hold the schema's parameters in any rotation of the
   schema's order or of its reverse *)

Rotate(seq, k) == [i \in 1..Len(seq) |-> seq[((i + k - 1) % Len(seq)) + 1]]

Reverse(seq) == [i \in 1..Len(seq) |-> seq[Len(seq) + 1 - i]]

Orders(seq) ==
    {Rotate(seq, k) : k \in 0..(Len(seq) - 1)}
      \cup {Rotate(Reverse(seq), k) : k \in 0..(Len(seq) - 1)}

WidgetSamples ==
    { Defaults, [f \in Features |-> ConfigOf(f).min], [f \in Features |-> ConfigOf(f).max] }

InitMapping ==
    /\ joblibInstalled = TRUE
    /\ artifact \in { Classifier(s, 730, VARIABLE_CONFIG[2].max, Ranked) :
                        s \in {<<"ok", "class">>, <<"absent", "class">>} }
    /\ widgets \in WidgetSamples
    /\ inputs \in Orders(Inputs(widgets))
    /\ failedBefore = FALSE
    /\ runs = 1
    /\ edits = 0
    /\ loads = 1
    /\ pressed = FALSE
    /\ status = "done"
    /\ model = artifact
    /\ display = Page(<<"joblib_imported", "model_loaded">>, Nothing).out
    /\ calls = <<>>
    /\ proba = NoValue
    /\ risk_level = ""
    /\ percent = <<>>
    /\ importance_df = <<>>

\* The handler runs on the mapping
HandleMapping ==
    LET r == Page(<<"joblib_imported", "model_loaded">>, Handler(model, inputs))
    IN  /\ ~pressed
        /\ pressed' = TRUE
        /\ failedBefore' = Failed(r.out)
        /\ Leaves(r)
        /\ UNCHANGED <<joblibInstalled, artifact, widgets, runs, edits, loads,
                       status, model, inputs>>

SpecMapping == InitMapping /\ [][HandleMapping]_vars

-----------------------------------------------------------------------------
(* Properties *)

PredictCalled == \E k \in 1..Len(calls) : calls[k].op = "predict"

ResultShown == risk_level # "" /\ percent # <<>> /\ Shown(risk_level) /\ Shown("probability")

RankingShown == Shown("bar_chart") \/ Shown("dataframe")

WarningShown == Shown("importance_warning")

\* C1: when joblib.load fails, the run stops before the form: the number
\* inputs and the button are never on the page while no model is loaded, and
\* no operation of the model is evaluated in such a run.
C1_NoFormWithoutModel ==
    /\ model.file # "valid" => ~FormShown /\ ~ButtonShown /\ calls = <<>>
    /\ (runs > 0 /\ joblibInstalled /\ artifact.file # "valid") =>
         /\ status = "stopped"
         /\ model.file # "valid"
         /\ Shown("load_failed")
         /\ ~Shown("sidebar")

C1_Witness ==
    /\ joblibInstalled
    /\ artifact.file = "corrupt"
    /\ status = "stopped"
    /\ Shown("load_failed")
    /\ runs = 2

\* C2: the label is "High Risk" exactly when the probability is above 0.5 and
\* "Low Risk" exactly when it is at most 0.5; 0.5 gives "Low Risk" and 50.0%,
\* 0.73 gives "High Risk" and 73.0%.
C2_RiskLabelThreshold ==
    /\ risk_level # "" =>
         /\ risk_level \in {"High Risk", "Low Risk"}
         /\ (risk_level = "High Risk") <=> (proba.v > 500)
         /\ (risk_level = "Low Risk") <=> (proba.v <= 500)
    /\ (pressed /\ proba.tag = "num") => ResultShown
    /\ proba = Num(500) => risk_level = "Low Risk" /\ percent = <<50, 0>>
    /\ proba = Num(730) => risk_level = "High Risk" /\ percent = <<73, 0>>

C2_Witness ==
    /\ pressed
    /\ proba = Num(500)
    /\ Shown("Low Risk")
    /\ percent = <<50, 0>>

\* C3: the record passed to predict_proba, and to predict on the fallback
\* path, has the schema's parameters as its columns, in the schema's order,
\* each with the value entered for that parameter, whatever the order of the
\* inputs mapping.
C3_ColumnOrder ==
    /\ pressed => calls # <<>>
    /\ \A k \in 1..Len(calls) :
         /\ Len(calls[k].df) = Len(VARIABLE_CONFIG)
         /\ \A i \in 1..Len(VARIABLE_CONFIG) :
              calls[k].df[i] = <<VARIABLE_CONFIG[i].name, widgets[VARIABLE_CONFIG[i].name]>>

C3_Witness ==
    /\ Len(calls) = 2
    /\ calls[2].op = "predict"
    /\ Columns(inputs) # expected_columns
    /\ widgets # Defaults

\* The model gives no importance vector that can be tabulated: it has
\* neither attribute, reading the attribute raises, or the vector has not
\* one weight per parameter
C4_NoRanking ==
    \/ model.feature_importances_ = "absent" /\ ~model.hasCoef
    \/ model.feature_importances_ = "raises"
    \/ model.feature_importances_ = "present" /\ Len(model.fiVec) # Len(VARIABLE_CONFIG)
    \/ /\ model.feature_importances_ = "absent"
       /\ model.hasCoef
       /\ Len(model.coef_[1]) # Len(VARIABLE_CONFIG)

\* C4: after a successful prediction, a model without importances, or whose
\* importances cannot be read or tabulated, gets the warning; nothing reaches
\* the outer handler; the label and the probability stay on the page.
C4_ImportanceWarning ==
    (pressed /\ risk_level # "" /\ percent # <<>> /\ C4_NoRanking) =>
        /\ WarningShown
        /\ ~RankingShown
        /\ ~Shown("prediction_failed")
        /\ status = "done"
        /\ ResultShown

C4_Witness ==
    /\ pressed
    /\ model.feature_importances_ = "raises"
    /\ WarningShown
    /\ Shown("High Risk")
    /\ Shown("probability")

\* The classifier answers the request with a probability
C5_ModelSucceeds ==
    /\ artifact.predict_proba = "ok"
    /\ widgets["ASA scores"] <= artifact.maxASA

\* C5: an exception of a triggered prediction is rendered as the error
\* message, the run still reaches its end with the form and the button on the
\* page, and a later press with inputs the model accepts gives a normal
\* result.
C5_FailureIsRecoverable ==
    /\ Shown("prediction_failed") =>
         status = "done" /\ FormShown /\ ButtonShown /\ Shown("sidebar")
    /\ (pressed /\ status = "done" /\ ~ResultShown) => Shown("prediction_failed")
    /\ (pressed /\ status = "done" /\ ~C5_ModelSucceeds /\ artifact.predict_proba = "ok") =>
         Shown("prediction_failed")
    /\ (failedBefore /\ pressed /\ C5_ModelSucceeds) =>
         ResultShown /\ ~Shown("prediction_failed")

C5_Witness ==
    /\ failedBefore
    /\ pressed
    /\ ResultShown
    /\ ~Shown("prediction_failed")

\* C6: the artifact is loaded once per process: a run triggered by the
\* button works on the model already loaded, so joblib.load has been called
\* once.
C6_LoadedOnce == pressed => loads = 1

\* C7: with every number input within its [min, max] and a classifier whose
\* predict_proba accepts every such record, a triggered prediction shows no
\* "Prediction failed" and the probability shown lies in [0, 1].
C7_ValidInputsPredict ==
    /\ \A f \in Features : widgets[f] >= ConfigOf(f).min /\ widgets[f] <= ConfigOf(f).max
    /\ (pressed /\ status = "done" /\ artifact.predict_proba = "ok"
          /\ artifact.maxASA = 5) =>
         /\ ~Shown("prediction_failed")
         /\ ResultShown
         /\ proba.tag = "num"
         /\ proba.v >= 0
         /\ proba.v <= 1000

C7_Witness ==
    /\ pressed
    /\ artifact.predict_proba = "ok"
    /\ artifact.maxASA = 5
    /\ widgets["Sex"] = 1
    /\ ResultShown

\* C8: predict_proba is tried first, and predict is called exactly when the
\* model has no predict_proba; its first element is then the probability.
C8_PredictOnlyWithoutProba ==
    (pressed /\ status = "done") =>
        /\ calls # <<>>
        /\ calls[1].op = "predict_proba"
        /\ PredictCalled <=> (artifact.predict_proba = "absent")

\* The importance vector the ranking is made of
C9_Vector ==
    IF model.feature_importances_ = "present" THEN model.fiVec
    ELSE IF model.hasCoef THEN model.coef_[1]
    ELSE <<>>

\* C9: the ranking has one row per schema parameter, the i-th parameter with
\* the i-th weight, in non-increasing order of weight; a vector of another
\* length gives the warning and no ranking.
C9_Ranking ==
    /\ importance_df # <<>> =>
         /\ RankingShown
         /\ Len(importance_df) = Len(VARIABLE_CONFIG)
         /\ \A i \in 1..Len(VARIABLE_CONFIG) :
              \E j \in 1..Len(importance_df) :
                 importance_df[j] = <<VARIABLE_CONFIG[i].name, C9_Vector[i]>>
         /\ \A j \in 1..(Len(importance_df) - 1) :
              importance_df[j][2] >= importance_df[j + 1][2]
    /\ (pressed /\ ResultShown /\ model.feature_importances_ # "raises"
          /\ Len(C9_Vector) = Len(VARIABLE_CONFIG)) =>
         importance_df # <<>> /\ ~WarningShown
    /\ (pressed /\ ResultShown /\ Len(C9_Vector) # Len(VARIABLE_CONFIG)) =>
         importance_df = <<>> /\ WarningShown /\ ~RankingShown

C9_Witness ==
    /\ model.feature_importances_ = "absent"
    /\ model.hasCoef
    /\ RankingShown
    /\ importance_df[1] # <<VARIABLE_CONFIG[1].name, C9_Vector[1]>>
    /\ importance_df[1][2] = importance_df[2][2]

\* C10: a run shows a label or "Prediction failed", never both; the ranking
\* or its warning only with the label and the probability; without a press
\* the model is not called and none of these is shown.
C10_ExclusiveOutcomes ==
    /\ ~(risk_level # "" /\ Shown("prediction_failed"))
    /\ (RankingShown \/ WarningShown) => ResultShown
    /\ ~pressed =>
         /\ calls = <<>>
         /\ risk_level = ""
         /\ percent = <<>>
         /\ ~Shown("prediction_failed")
         /\ ~RankingShown
         /\ ~WarningShown

====
